---- MODULE Spec2Model ----
(***************************************************************************)
(* Model of the retrieval-augmented question-answering scripts:            *)
(*   src/unnamed/part_001  parallel query retrieval (expand, fan out,      *)
(*                         merge, answer)                                  *)
(*   src/unnamed/part_000  single query retrieval                          *)
(*   src/llmRouter.js      model recommender                               *)
(*                                                                         *)
(* JavaScript values are tagged records [t, v, items]: t is the JavaScript *)
(* type, v the characters of a string and items the items of an array.     *)
(* A function call yields [called, threw, value]: threw is TRUE when the   *)
(* call ends by throwing (an async function: by rejecting its promise).    *)
(* Texts are sequences of pieces.                                          *)
(* Scores are relevance scores scaled to integers (0.95 is 95).            *)
(* Chunks of the split document are numbered 1..documents; embedding calls *)
(* of one batch are interchangeable, so the calls in flight are counted.   *)
(***************************************************************************)
EXTENDS Integers, Sequences, FiniteSets, TLC

VARIABLES
    script,           \* which script runs: "parallel", "basic", "router"
    collection,       \* the points stored in the vector index
    pc,               \* position of the run: in startup, at the prompt, in a request
    originalQuery,    \* the user's query (a JavaScript string)
    k,                \* requested result count
    genOutcome,       \* what the paraphrase service call did
    queryVariations,  \* [threw, value] returned by generateQueryVariations
    status,           \* per variation: position of its singleQuerySearch
    indexHits,        \* per variation: the hits the vector index returned
    allResults,       \* per variation: value its singleQuerySearch resolved to
    path,             \* return path of the search: "none", "merge", "fallback", "single"
    searchResults,    \* [threw, value] returned by the search to askQuestion
    answerOutcome,    \* what the generative service call for the answer did
    answer,           \* [threw, value] returned by generateAnswer / recommendAIModel
    rl,               \* the readline interface: "open" or "closed"
    input,            \* the last line the user typed at the prompt
    reads,            \* number of lines read from the prompt
    said,             \* what the script last reported on the console
    exitCode,         \* <<>> while the process runs, <<code>> once it has exited
    failed,           \* the call of this run's startup whose error was caught, or "none"
    apiKey,           \* process.env.GOOGLE_API_KEY is set
    dataset,          \* the file the script loads (node.pdf, aiModels.json) is readable
    runs,             \* number of runs of the script so far, this one included
    exists,           \* the collection exists in the vector index
    points,           \* chunk numbers of the points upserted into the collection
    documents,        \* number of chunks of the split document (splitDocs.length)
    batchStart,       \* the loop index i of addDocumentsToVectorStore
    inFlight,         \* embedding calls of the current batch not yet resolved
    upserts,          \* upsert calls completed in this run
    innerTry          \* main of this run has entered its inner try block

\* the locals of the request being processed
requestVars == <<originalQuery, genOutcome, queryVariations, status, indexHits, allResults,
                 path, searchResults, answerOutcome, answer>>
\* the console and the process
ioVars == <<rl, input, reads, said, exitCode, failed>>
\* the environment of the runs
envVars == <<apiKey, dataset, runs>>
\* the collection as indexing sees it, and the position of the indexing loop
indexVars == <<exists, points, documents, batchStart, inFlight, upserts, innerTry>>

vars == <<script, collection, pc, originalQuery, k, genOutcome, queryVariations, status,
          indexHits, allResults, path, searchResults, answerOutcome, answer,
          ioVars, envVars, indexVars>>

-----------------------------------------------------------------------------
(* JavaScript values and call results *)

Str(chars) == [t |-> "string", v |-> chars, items |-> <<>>]
Arr(items) == [t |-> "array", v |-> <<>>, items |-> items]
Num == [t |-> "number", v |-> <<"7">>, items |-> <<>>]
Null == [t |-> "null", v |-> <<>>, items |-> <<>>]
Obj == [t |-> "object", v |-> <<>>, items |-> <<>>]
Undefined == [t |-> "undefined", v |-> <<>>, items |-> <<>>]

Ret(val) == [called |-> TRUE, threw |-> FALSE, value |-> val]
Throw == [called |-> TRUE, threw |-> TRUE, value |-> <<>>]
NotCalled == [called |-> FALSE, threw |-> FALSE, value |-> <<>>]

Min(a, b) == IF a <= b THEN a ELSE b

-----------------------------------------------------------------------------
(* Text of a generative-service response, as a sequence of lexical tokens *)

FenceJson == [k |-> "fence", s |-> <<"fence-json">>]
Fence == [k |-> "fence", s |-> <<"fence">>]
Ws == [k |-> "ws", s |-> <<"\n">>]
LBracket == [k |-> "punct", s |-> <<"[">>]
RBracket == [k |-> "punct", s |-> <<"]">>]
Comma == [k |-> "punct", s |-> <<",">>]
LBrace == [k |-> "punct", s |-> <<"{">>]
RBrace == [k |-> "punct", s |-> <<"}">>]
StrTok(chars) == [k |-> "string", s |-> chars]
NumTok == [k |-> "number", s |-> <<"7">>]
NullTok == [k |-> "literal", s |-> <<"null">>]
Word == [k |-> "word", s |-> <<"Sure">>]

\* responseText.replace(...): every code-fence marker, with or without its json label, is removed
StripFences(text) == SelectSeq(text, LAMBDA tok : tok.k # "fence")

RECURSIVE TrimStart(_)
TrimStart(text) ==
    IF text # <<>> /\ Head(text).k = "ws" THEN TrimStart(Tail(text)) ELSE text

RECURSIVE TrimEnd(_)
TrimEnd(text) ==
    IF text # <<>> /\ text[Len(text)].k = "ws"
    THEN TrimEnd(SubSeq(text, 1, Len(text) - 1))
    ELSE text

\* String.prototype.trim
Trim(text) == TrimEnd(TrimStart(text))

-----------------------------------------------------------------------------
(* JSON.parse on the token sequence: value := string | number | null |     *)
(* [ value, ... ] | { }.  A result is [ok, val, next]: next is the index   *)
(* of the first token not consumed.                                        *)

ParseFail == [ok |-> FALSE, val |-> Null, next |-> 0]
ParseOk(val, next) == [ok |-> TRUE, val |-> val, next |-> next]

RECURSIVE SkipWs(_, _)
SkipWs(text, i) ==
    IF i <= Len(text) /\ text[i].k = "ws" THEN SkipWs(text, i + 1) ELSE i

RECURSIVE ParseValue(_, _)
RECURSIVE ParseElements(_, _, _)

ParseValue(text, i) ==
    LET j == SkipWs(text, i) IN
    IF j > Len(text) THEN ParseFail
    ELSE LET tok == text[j] IN
         CASE tok.k = "string" -> ParseOk(Str(tok.s), j + 1)
           [] tok.k = "number" -> ParseOk(Num, j + 1)
           [] tok.k = "literal" -> ParseOk(Null, j + 1)
           [] tok = LBracket ->
                LET j2 == SkipWs(text, j + 1) IN
                IF j2 <= Len(text) /\ text[j2] = RBracket
                THEN ParseOk(Arr(<<>>), j2 + 1)
                ELSE ParseElements(text, j + 1, <<>>)
           [] tok = LBrace ->
                LET j2 == SkipWs(text, j + 1) IN
                IF j2 <= Len(text) /\ text[j2] = RBrace
                THEN ParseOk(Obj, j2 + 1)
                ELSE ParseFail
           [] OTHER -> ParseFail

\* the elements of an array after "[" or ",": a value, then "," or "]"
ParseElements(text, i, acc) ==
    LET r == ParseValue(text, i) IN
    IF ~r.ok THEN ParseFail
    ELSE LET j == SkipWs(text, r.next) IN
         IF j > Len(text) THEN ParseFail
         ELSE IF text[j] = RBracket THEN ParseOk(Arr(Append(acc, r.val)), j + 1)
         ELSE IF text[j] = Comma THEN ParseElements(text, j + 1, Append(acc, r.val))
         ELSE ParseFail

\* JSON.parse(text): [threw, value]; throws SyntaxError unless the whole text is one value
JSONParse(text) ==
    LET r == ParseValue(text, 1) IN
    IF r.ok /\ SkipWs(text, r.next) > Len(text) THEN Ret(r.val) ELSE Throw

-----------------------------------------------------------------------------
(* generateQueryVariations *)

\* [...variations]: the items of an array, the characters of a string,
\* TypeError for a value that is not iterable
Spread(val) ==
    CASE val.t = "array" -> Ret(val.items)
      [] val.t = "string" -> Ret([i \in 1..Len(val.v) |-> Str(<<val.v[i]>>)])
      [] OTHER -> Throw

TechnicalVariation(q) == Str(<<"What are the technical aspects of ">> \o q.v \o <<"?">>)
ExamplesVariation(q) == Str(<<"Examples of ">> \o q.v \o <<" in Node.js">>)
ConceptVariation(q) == Str(<<"Explain the concept of ">> \o q.v \o <<" in Node.js">>)

\* the variations returned when parsing fails
TemplatedVariations(q) ==
    <<q, TechnicalVariation(q), ExamplesVariation(q), ConceptVariation(q)>>

\* the inner try block: strip, trim, parse, prepend the original query
ParseVariations(q, responseText) ==
    LET parsed == JSONParse(Trim(StripFences(responseText))) IN
    IF parsed.threw THEN Throw
    ELSE LET items == Spread(parsed.value) IN
         IF items.threw THEN Throw ELSE Ret(<<q>> \o items.value)

\* the inner try/catch
ParseOrTemplate(q, responseText) ==
    LET r == ParseVariations(q, responseText) IN
    IF r.threw THEN Ret(TemplatedVariations(q)) ELSE r

\* the outer try block: the service call, result.response.text(), the inner try/catch
ExpandTry(q, outcome) ==
    IF outcome.kind # "text" THEN Throw ELSE ParseOrTemplate(q, outcome.text)

\* generateQueryVariations(originalQuery) when the paraphrase service call does `outcome`
GenerateQueryVariationsMissingCatch(q, outcome) == ExpandTry(q, outcome)
GenerateQueryVariationsTemplateOnFailure(q, outcome) ==
    LET r == ExpandTry(q, outcome) IN
    IF r.threw THEN Ret(TemplatedVariations(q)) ELSE r
GenerateQueryVariations(q, outcome) ==
    LET r == ExpandTry(q, outcome) IN
    IF r.threw THEN Ret(<<q>>) ELSE r

-----------------------------------------------------------------------------
(* The vector index: its points and the ranked hit lists a search returns *)

\* result.pageContent.substring(0, 100)
IdentityPrefixLen == 100
\* default result count of singleQuerySearch / parallelQuerySearch
DefaultK == 4
\* const batchSize = 20 of addDocumentsToVectorStore
BatchSize == 20

\* model bounds
MaxK == 2           \* result counts 0..MaxK are tried besides the default
MaxHits == 3        \* hits the index returns to one request, over all its searches
MaxReads == 2       \* lines read at the prompt in one session
MaxChunks == 41     \* chunks of the split document
MaxRuns == 2        \* runs of a script against the same vector index
MaxBodyLen == 6     \* tokens in an enumerated paraphrase response

Pad(c, n) == [i \in 1..n |-> c]

\* two chunks that agree on their first 100 characters, a short chunk, and a
\* point stored without a content field
ContentA1 == Str(Pad("a", IdentityPrefixLen) \o <<"x">>)
ContentA2 == Str(Pad("a", IdentityPrefixLen) \o <<"y">>)
ContentB == Str(<<"b", "c">>)

Points ==
    { [content |-> ContentA1, metadata |-> "p1"],
      [content |-> ContentA2, metadata |-> "p2"],
      [content |-> ContentB, metadata |-> "p3"],
      [content |-> Undefined, metadata |-> "p4"] }

Scores == {90, 95}

RawHits(coll) == [payload : coll, score : Scores]

\* what qdrantClient.search may return under limit n: at most n hits, each point
\* once, ranked by score
RankedLists(coll, n) ==
    LET m == Min(n, MaxHits) IN
    { hits \in UNION { [1..len -> RawHits(coll)] : len \in 0..m } :
        /\ \A i, j \in 1..Len(hits) : i < j => hits[i].score >= hits[j].score
        /\ \A i, j \in 1..Len(hits) : i # j => hits[i].payload # hits[j].payload }

-----------------------------------------------------------------------------
(* singleQuerySearch *)

\* searchResult.map(hit => ({pageContent, metadata, score, query}))
TagHits(hits, query) ==
    [i \in 1..Len(hits) |->
        [pageContent |-> hits[i].payload.content,
         metadata |-> hits[i].payload.metadata,
         score |-> hits[i].score,
         query |-> query]]

\* the catch block of singleQuerySearch: log and return []
SingleQueryRethrow(r) == r
SingleQueryCatch(r) == IF r.threw THEN Ret(<<>>) ELSE r

-----------------------------------------------------------------------------
(* the merge of parallelQuerySearch *)

RECURSIVE Flat(_)
\* allResults.flat()
Flat(lists) == IF lists = <<>> THEN <<>> ELSE Head(lists) \o Flat(Tail(lists))

\* String.prototype.substring(0, n); TypeError when the receiver is undefined
Substring(val, n) ==
    IF val.t = "string" THEN Ret(Str(SubSeq(val.v, 1, Min(n, Len(val.v))))) ELSE Throw

ContentIdentifierWhole(result) ==
    IF result.pageContent.t = "string" THEN Ret(result.pageContent) ELSE Throw
ContentIdentifier(result) == Substring(result.pageContent, IdentityPrefixLen)

\* position of key in the map's insertion order, 0 when absent
KeyPos(map, key) ==
    IF \E i \in 1..Len(map) : map[i].key = key
    THEN CHOOSE i \in 1..Len(map) : map[i].key = key
    ELSE 0

\* contentMap.get(id).score < result.score
ReplacesOnTie(kept, result) == kept.score <= result.score
Replaces(kept, result) == kept.score < result.score

RECURSIVE Dedup(_, _, _)
\* flatResults.forEach(...): the Map as the sequence of its entries in insertion order
Dedup(flat, i, map) ==
    IF i > Len(flat) THEN Ret(map)
    ELSE LET id == ContentIdentifier(flat[i]) IN
         IF id.threw THEN Throw
         ELSE LET pos == KeyPos(map, id.value) IN
              IF pos = 0
              THEN Dedup(flat, i + 1, Append(map, [key |-> id.value, result |-> flat[i]]))
              ELSE IF Replaces(map[pos].result, flat[i])
              THEN Dedup(flat, i + 1, [map EXCEPT ![pos].result = flat[i]])
              ELSE Dedup(flat, i + 1, map)

\* Array.from(contentMap.values())
MapValues(map) == [i \in 1..Len(map) |-> map[i].result]

\* insert x after every element whose score is at least x's
InsertByScore(sorted, x) ==
    LET n == Cardinality({i \in 1..Len(sorted) : sorted[i].score >= x.score}) IN
    SubSeq(sorted, 1, n) \o <<x>> \o SubSeq(sorted, n + 1, Len(sorted))

RECURSIVE SortFrom(_, _, _)
SortFrom(items, i, sorted) ==
    IF i > Len(items) THEN sorted
    ELSE SortFrom(items, i + 1, InsertByScore(sorted, items[i]))

\* .sort((a, b) => b.score - a.score): stable, descending by score
SortUnsorted(items) == items
SortByScore(items) == SortFrom(items, 1, <<>>)

\* .slice(0, n)
SliceAll(items, n) == items
Slice(items, n) == SubSeq(items, 1, Min(n, Len(items)))

\* flatten, deduplicate, sort, truncate: [threw, value]
MergeResults(all, n) ==
    LET map == Dedup(Flat(all), 1, <<>>) IN
    IF map.threw THEN Throw
    ELSE Ret(Slice(SortByScore(MapValues(map.value)), n))

-----------------------------------------------------------------------------
(* generateAnswer, recommendAIModel *)

Apology == <<"I encountered an error while generating your answer. Please try again.">>
RouterApology == <<"Sorry, I encountered an error while trying to recommend an AI model. Please check your API key and try again.">>

\* the try block: build the prompt, call the service, read result.response.text()
GenerateTry(outcome) == IF outcome.kind = "text" THEN Ret(outcome.text) ELSE Throw

\* generateAnswer of the parallel script
GenerateAnswerRethrow(outcome) == GenerateTry(outcome)
GenerateAnswer(outcome) ==
    LET r == GenerateTry(outcome) IN IF r.threw THEN Ret(Apology) ELSE r

\* generateAnswer of the single query script
GenerateAnswerBasic(outcome) ==
    LET r == GenerateTry(outcome) IN IF r.threw THEN Ret(Apology) ELSE r

\* recommendAIModel
RecommendAIModel(outcome) ==
    LET r == GenerateTry(outcome) IN IF r.threw THEN Ret(RouterApology) ELSE r

-----------------------------------------------------------------------------
(* Inputs *)

Scripts == {"parallel", "basic", "router"}

Queries == {Str(<<"f", "s">>), Str(<<"h">>)}

Ks == (0..MaxK) \cup {DefaultK}

VariationT == Str(<<"t">>)
VariationU == Str(<<"u">>)
VariationC == Str(<<"c">>)

\* the expected response: a fenced JSON array of three strings
FencedThree ==
    <<FenceJson, Ws, LBracket, StrTok(VariationT.v), Comma, StrTok(VariationU.v),
      Comma, StrTok(VariationC.v), RBracket, Ws, Fence>>

\* responses the paraphrase service gives in the request flow
CannedTexts ==
    { FencedThree,
      <<Word, LBracket, StrTok(VariationT.v), RBracket>>,
      <<LBracket, StrTok(VariationT.v), RBracket>> }

\* responses enumerated for generateQueryVariations alone
BodyTokens == {LBracket, RBracket, Comma, StrTok(<<"a", "b">>)}
Bodies == UNION { [1..len -> BodyTokens] : len \in 0..MaxBodyLen }
EnumeratedTexts ==
    Bodies
    \cup { <<FenceJson, Ws>> \o b \o <<Ws, Fence>> : b \in Bodies }
    \cup { <<Word>> \o b : b \in Bodies }
    \cup { FencedThree, <<NumTok>>, <<NullTok>>, <<LBrace, RBrace>>, <<LBrace, Word, RBrace>>,
           <<LBracket, NumTok, Comma, NullTok, RBracket>>,
           <<Ws, StrTok(<<"a", "b">>), Ws>>,
           <<LBracket, StrTok(VariationT.v), Comma, StrTok(VariationU.v), Comma,
             StrTok(VariationC.v), Comma, StrTok(<<"a", "b">>), RBracket>>,
           <<StrTok(<<"n", "o", "d", "e">>)>> }

Failures == { [kind |-> "rejects", text |-> <<>>], [kind |-> "textThrows", text |-> <<>>] }
GenOutcomes(texts) == Failures \cup { [kind |-> "text", text |-> t] : t \in texts }
AnswerOutcomes == Failures \cup { [kind |-> "text", text |-> <<"generated text">>] }

NoOutcome == [kind |-> "none", text |-> <<>>]

-----------------------------------------------------------------------------
(* Initial states *)

\* no request is being processed
NoRequest ==
    /\ genOutcome = NoOutcome
    /\ queryVariations = NotCalled
    /\ status = <<>>
    /\ indexHits = <<>>
    /\ allResults = <<>>
    /\ path = "none"
    /\ searchResults = NotCalled
    /\ answerOutcome = NoOutcome
    /\ answer = NotCalled

\* startup found the collection ready and main has issued the first prompt
Started ==
    /\ rl = "open"
    /\ input = Str(<<>>)
    /\ reads = 0
    /\ said = <<>>
    /\ exitCode = <<>>
    /\ failed = "none"
    /\ apiKey = TRUE
    /\ dataset = TRUE
    /\ runs = 1
    /\ exists = TRUE
    /\ points = <<1>>
    /\ documents = 1
    /\ batchStart = 0
    /\ inFlight = 0
    /\ upserts = 0
    /\ innerTry = FALSE

\* a query has been read at the prompt and its processing starts
InitRequest ==
    /\ pc = "start"
    /\ NoRequest
    /\ Started

\* the collection of the request flow: a chunk and a point without content
SmallCollection == { p \in Points : p.metadata \in {"p3", "p4"} }

Init ==
    /\ script \in Scripts
    /\ collection = SmallCollection
    /\ k \in Ks
    /\ originalQuery = Str(<<"f", "s">>)
    /\ InitRequest

\* the merge on every hit list of the full collection: the request has reached the
\* fan-out of two variations whose embeddings have resolved
InitMerge ==
    /\ script = "parallel"
    /\ collection = Points
    /\ k \in Ks
    /\ originalQuery = Str(<<"f", "s">>)
    /\ pc = "fanout"
    /\ genOutcome = [kind |-> "text", text |-> <<LBracket, StrTok(VariationT.v), RBracket>>]
    /\ queryVariations = GenerateQueryVariations(originalQuery, genOutcome)
    /\ status = [i \in 1..Len(queryVariations.value) |-> "searching"]
    /\ indexHits = [i \in 1..Len(queryVariations.value) |-> <<>>]
    /\ allResults = [i \in 1..Len(queryVariations.value) |-> Ret(<<>>)]
    /\ path = "none"
    /\ searchResults = NotCalled
    /\ answerOutcome = NoOutcome
    /\ answer = NotCalled
    /\ Started

InitExpand ==
    /\ script = "parallel"
    /\ collection = SmallCollection
    /\ k = DefaultK
    /\ originalQuery \in Queries
    /\ InitRequest

\* a script is started: against a vector index that lacks the collection or holds it
\* empty (the router script uses no index), with or without its key and its file
InitStartup ==
    /\ script \in Scripts
    /\ collection = SmallCollection
    /\ k = DefaultK
    /\ originalQuery = Str(<<>>)
    /\ pc = "load"
    /\ NoRequest
    /\ rl = "open"
    /\ input = Str(<<>>)
    /\ reads = 0
    /\ said = <<>>
    /\ exitCode = <<>>
    /\ failed = "none"
    /\ apiKey \in BOOLEAN
    /\ dataset \in BOOLEAN
    /\ runs = 1
    /\ exists \in (IF script = "router" THEN {FALSE} ELSE BOOLEAN)
    /\ points = <<>>
    /\ documents \in (IF script = "router" THEN {0} ELSE 0..MaxChunks)
    /\ batchStart = 0
    /\ inFlight = 0
    /\ upserts = 0
    /\ innerTry = FALSE

\* the interactive session: main has issued the first prompt
InitLoop ==
    /\ script \in Scripts
    /\ collection = SmallCollection
    /\ k = DefaultK
    /\ originalQuery = Str(<<>>)
    /\ pc = "prompt"
    /\ NoRequest
    /\ Started

-----------------------------------------------------------------------------
(* parallelQuerySearch: query expansion and fan-out *)

Settled(st) == st \in {"returned", "failed"}

\* hits the index has returned to this request so far
HitsSoFar == Len(Flat(indexHits))

\* lists the index may still return under limit k within the model's hit bound
Returnable == { hits \in RankedLists(collection, k) : HitsSoFar + Len(hits) <= MaxHits }

\* await generateQueryVariations(originalQuery), then queryVariations.map(singleQuerySearch):
\* every variation's search starts and waits for its embedding
Expand(outcomes) ==
    /\ script = "parallel"
    /\ pc = "start"
    /\ \E o \in outcomes :
        LET r == GenerateQueryVariations(originalQuery, o) IN
        /\ genOutcome' = o
        /\ queryVariations' = r
        /\ IF r.threw
           THEN /\ pc' = "fallbackEmbedding"
                /\ path' = "fallback"
                /\ UNCHANGED <<status, indexHits, allResults>>
           ELSE /\ pc' = "fanout"
                /\ status' = [i \in 1..Len(r.value) |-> "embedding"]
                /\ indexHits' = [i \in 1..Len(r.value) |-> <<>>]
                /\ allResults' = [i \in 1..Len(r.value) |-> Ret(<<>>)]
                /\ UNCHANGED path
    /\ UNCHANGED <<ioVars, envVars, indexVars, script, collection, originalQuery, k, searchResults, answerOutcome, answer>>

ExpandStep == Expand(GenOutcomes(CannedTexts))

ExpandEnumerated == Expand(GenOutcomes(EnumeratedTexts))

\* the paraphrase service answers with one variation in the interactive session
ExpandInSession == Expand(GenOutcomes({<<LBracket, StrTok(VariationT.v), RBracket>>}))

\* Promise.all(searchPromises) resolves to the values of the promises in the order
\* of the promises: the value of variation i's search is element i, whenever it settles
PromiseAllInCompletionOrder(results, st, i, r) ==
    [results EXCEPT ![1 + Cardinality({ j \in DOMAIN st : Settled(st[j]) })] = r]
PromiseAllValues(results, st, i, r) == [results EXCEPT ![i] = r]

\* singleQuerySearch of variation i: getEmbeddings resolves, the search is issued
EmbeddingReturns(i) ==
    /\ script = "parallel"
    /\ i \in DOMAIN status
    /\ status[i] = "embedding"
    /\ status' = [status EXCEPT ![i] = "searching"]
    /\ UNCHANGED <<ioVars, envVars, indexVars, script, collection, pc, originalQuery, k, genOutcome, queryVariations,
                   indexHits, allResults, path, searchResults, answerOutcome, answer>>

\* singleQuerySearch of variation i: getEmbeddings rejects
EmbeddingFails(i) ==
    /\ script = "parallel"
    /\ i \in DOMAIN status
    /\ status[i] = "embedding"
    /\ status' = [status EXCEPT ![i] = "failed"]
    /\ allResults' = PromiseAllValues(allResults, status, i, SingleQueryCatch(Throw))
    /\ UNCHANGED <<ioVars, envVars, indexVars, script, collection, pc, originalQuery, k, genOutcome, queryVariations,
                   indexHits, path, searchResults, answerOutcome, answer>>

\* singleQuerySearch of variation i: the index answers
SearchReturns(i) ==
    /\ script = "parallel"
    /\ i \in DOMAIN status
    /\ status[i] = "searching"
    /\ \E hits \in Returnable :
        /\ indexHits' = [indexHits EXCEPT ![i] = hits]
        /\ allResults' = PromiseAllValues(allResults, status, i,
                            SingleQueryCatch(Ret(TagHits(hits, queryVariations.value[i]))))
    /\ status' = [status EXCEPT ![i] = "returned"]
    /\ UNCHANGED <<ioVars, envVars, indexVars, script, collection, pc, originalQuery, k, genOutcome, queryVariations,
                   path, searchResults, answerOutcome, answer>>

\* singleQuerySearch of variation i: qdrantClient.search rejects
SearchFails(i) ==
    /\ script = "parallel"
    /\ i \in DOMAIN status
    /\ status[i] = "searching"
    /\ status' = [status EXCEPT ![i] = "failed"]
    /\ allResults' = PromiseAllValues(allResults, status, i, SingleQueryCatch(Throw))
    /\ UNCHANGED <<ioVars, envVars, indexVars, script, collection, pc, originalQuery, k, genOutcome, queryVariations,
                   indexHits, path, searchResults, answerOutcome, answer>>

\* Promise.all(searchPromises): rejected as soon as one promise has rejected,
\* fulfilled once all have fulfilled, pending otherwise
PromiseAnySettled(st, results) ==
    IF \E i \in DOMAIN st : Settled(st[i]) THEN "fulfilled" ELSE "pending"
PromiseAll(st, results) ==
    IF \E i \in DOMAIN st : Settled(st[i]) /\ results[i].threw THEN "rejected"
    ELSE IF \A i \in DOMAIN st : Settled(st[i]) THEN "fulfilled"
    ELSE "pending"

\* the continuation of await Promise.all: flatten, deduplicate, sort, truncate
\* and return; on a throw, the catch block starts singleQuerySearch(originalQuery, k)
\* (searchPromises and allResults are local to the try block)
MergeStep ==
    /\ script = "parallel"
    /\ pc = "fanout"
    /\ PromiseAll(status, allResults) # "pending"
    /\ LET merged == IF PromiseAll(status, allResults) = "rejected" THEN Throw
                     ELSE MergeResults([i \in DOMAIN allResults |-> allResults[i].value], k)
       IN IF merged.threw
          THEN /\ pc' = "fallbackEmbedding"
               /\ path' = "fallback"
               /\ status' = <<>>
               /\ indexHits' = <<>>
               /\ allResults' = <<>>
               /\ UNCHANGED searchResults
          ELSE /\ pc' = "searched"
               /\ path' = "merge"
               /\ searchResults' = merged
               /\ UNCHANGED <<status, indexHits, allResults>>
    /\ UNCHANGED <<ioVars, envVars, indexVars, script, collection, originalQuery, k, genOutcome, queryVariations,
                   answerOutcome, answer>>

-----------------------------------------------------------------------------
(* parallelQuerySearch: the fall-back singleQuerySearch(originalQuery, k) *)

FallbackEmbeddingReturns ==
    /\ script = "parallel"
    /\ pc = "fallbackEmbedding"
    /\ pc' = "fallbackSearching"
    /\ UNCHANGED <<ioVars, envVars, indexVars, script, collection, originalQuery, k, genOutcome, queryVariations, status,
                   indexHits, allResults, path, searchResults, answerOutcome, answer>>

FallbackEmbeddingFails ==
    /\ script = "parallel"
    /\ pc = "fallbackEmbedding"
    /\ pc' = "searched"
    /\ searchResults' = SingleQueryCatch(Throw)
    /\ UNCHANGED <<ioVars, envVars, indexVars, script, collection, originalQuery, k, genOutcome, queryVariations, status,
                   indexHits, allResults, path, answerOutcome, answer>>

FallbackSearchReturns ==
    /\ script = "parallel"
    /\ pc = "fallbackSearching"
    /\ pc' = "searched"
    /\ \E hits \in RankedLists(collection, k) :
        searchResults' = SingleQueryCatch(Ret(TagHits(hits, originalQuery)))
    /\ UNCHANGED <<ioVars, envVars, indexVars, script, collection, originalQuery, k, genOutcome, queryVariations, status,
                   indexHits, allResults, path, answerOutcome, answer>>

FallbackSearchFails ==
    /\ script = "parallel"
    /\ pc = "fallbackSearching"
    /\ pc' = "searched"
    /\ searchResults' = SingleQueryCatch(Throw)
    /\ UNCHANGED <<ioVars, envVars, indexVars, script, collection, originalQuery, k, genOutcome, queryVariations, status,
                   indexHits, allResults, path, answerOutcome, answer>>

-----------------------------------------------------------------------------
(* similaritySearch of the single query script *)

\* searchResult.map(hit => ({pageContent, metadata, score}))
UntaggedHits(hits) ==
    [i \in 1..Len(hits) |->
        [pageContent |-> hits[i].payload.content,
         metadata |-> hits[i].payload.metadata,
         score |-> hits[i].score]]

\* the catch block of similaritySearch: log and throw the error again
SimilaritySearchCatch(r) == r

SimilarityEmbeddingReturns ==
    /\ script = "basic"
    /\ pc = "start"
    /\ pc' = "searching"
    /\ UNCHANGED <<ioVars, envVars, indexVars, script, collection, originalQuery, k, genOutcome, queryVariations, status,
                   indexHits, allResults, path, searchResults, answerOutcome, answer>>

SimilarityEmbeddingFails ==
    /\ script = "basic"
    /\ pc = "start"
    /\ pc' = "searched"
    /\ path' = "single"
    /\ searchResults' = SimilaritySearchCatch(Throw)
    /\ UNCHANGED <<ioVars, envVars, indexVars, script, collection, originalQuery, k, genOutcome, queryVariations, status,
                   indexHits, allResults, answerOutcome, answer>>

SimilaritySearchReturns ==
    /\ script = "basic"
    /\ pc = "searching"
    /\ pc' = "searched"
    /\ path' = "single"
    /\ \E hits \in RankedLists(collection, k) :
        searchResults' = SimilaritySearchCatch(Ret(UntaggedHits(hits)))
    /\ UNCHANGED <<ioVars, envVars, indexVars, script, collection, originalQuery, k, genOutcome, queryVariations, status,
                   indexHits, allResults, answerOutcome, answer>>

SimilaritySearchFails ==
    /\ script = "basic"
    /\ pc = "searching"
    /\ pc' = "searched"
    /\ path' = "single"
    /\ searchResults' = SimilaritySearchCatch(Throw)
    /\ UNCHANGED <<ioVars, envVars, indexVars, script, collection, originalQuery, k, genOutcome, queryVariations, status,
                   indexHits, allResults, answerOutcome, answer>>

-----------------------------------------------------------------------------
(* askQuestion: the line read at the prompt *)

Uppers == <<"A", "B", "C", "D", "E", "F", "G", "H", "I", "J", "K", "L", "M",
            "N", "O", "P", "Q", "R", "S", "T", "U", "V", "W", "X", "Y", "Z">>
Lowers == <<"a", "b", "c", "d", "e", "f", "g", "h", "i", "j", "k", "l", "m",
            "n", "o", "p", "q", "r", "s", "t", "u", "v", "w", "x", "y", "z">>

\* String.prototype.toLowerCase on the characters of a string
ToLowerCase(chars) ==
    [n \in 1..Len(chars) |->
        IF \E j \in 1..Len(Uppers) : Uppers[j] = chars[n]
        THEN Lowers[CHOOSE j \in 1..Len(Uppers) : Uppers[j] = chars[n]]
        ELSE chars[n]]

ExitLine == Str(<<"e", "x", "i", "t">>)
IndexLine == Str(<<"i", "n", "d", "e", "x">>)

\* query.toLowerCase() === 'exit'
IsExitCaseSensitive(query) == query.v = ExitLine.v
IsExit(query) == ToLowerCase(query.v) = ExitLine.v

\* lines the user types
InputLines == { ExitLine, Str(<<"E", "x", "i", "t">>), IndexLine, Str(<<"f", "s">>) }

Goodbye == <<"Goodbye!">>
RouterGoodbye == <<"Thank you for using the AI Model Recommender. Goodbye!">>
NoInformation == <<"No relevant information found.">>
ErrorProcessing == <<"Error processing query:">>

\* the callback of rl.question: an exit line closes the interface and returns, any
\* other line is the query of a new request (the locals of the last request are gone)
ReadLine ==
    /\ rl = "open"
    /\ pc \in {"prompt", "done"}
    /\ reads < MaxReads
    /\ \E line \in InputLines :
        /\ input' = line
        /\ IF IsExit(line)
           THEN /\ rl' = "closed"
                /\ pc' = "exited"
                /\ said' = IF script = "router" THEN RouterGoodbye ELSE Goodbye
                /\ exitCode' = <<0>>
                /\ UNCHANGED originalQuery
           ELSE /\ pc' = "start"
                /\ originalQuery' = line
                /\ said' = <<>>
                /\ UNCHANGED <<rl, exitCode>>
    /\ reads' = reads + 1
    /\ genOutcome' = NoOutcome
    /\ queryVariations' = NotCalled
    /\ status' = <<>>
    /\ indexHits' = <<>>
    /\ allResults' = <<>>
    /\ path' = "none"
    /\ searchResults' = NotCalled
    /\ answerOutcome' = NoOutcome
    /\ answer' = NotCalled
    /\ UNCHANGED <<failed, envVars, indexVars, script, collection, k>>

-----------------------------------------------------------------------------
(* askQuestion after the search: answer generation *)

\* try { ... } catch (error) { console.error(...) } askQuestion(): whatever the try
\* block did, the next prompt is issued
AskCatchMissing(r) == IF r.threw THEN "crashed" ELSE "done"
AskCatch(r) == "done"

\* searchResults.length === 0
NoResultsNever(results) == FALSE
NoResults(results) == Len(results) = 0

\* searchResults.forEach(... result.pageContent.substring(0, 150) ...): throws on a
\* result without a content text
ShowContexts(results) ==
    IF \E n \in 1..Len(results) : results[n].pageContent.t # "string" THEN Throw ELSE Ret(<<>>)

\* the search threw: the catch block of askQuestion reports it
AskSearchThrew ==
    /\ script \in {"parallel", "basic"}
    /\ pc = "searched"
    /\ searchResults.threw
    /\ pc' = AskCatch(searchResults)
    /\ said' = ErrorProcessing
    /\ UNCHANGED <<rl, input, reads, exitCode, failed, envVars, indexVars, script, collection,
                   originalQuery, k, genOutcome, queryVariations, status,
                   indexHits, allResults, path, searchResults, answerOutcome, answer>>

\* searchResults.length === 0: "No relevant information found."
AskNoResults ==
    /\ script \in {"parallel", "basic"}
    /\ pc = "searched"
    /\ ~searchResults.threw
    /\ NoResults(searchResults.value)
    /\ pc' = AskCatch(searchResults)
    /\ said' = NoInformation
    /\ UNCHANGED <<rl, input, reads, exitCode, failed, envVars, indexVars, script, collection,
                   originalQuery, k, genOutcome, queryVariations, status,
                   indexHits, allResults, path, searchResults, answerOutcome, answer>>

\* await generateAnswer(query, searchResults), print the answer, list the contexts
AskGenerateAnswer ==
    /\ script \in {"parallel", "basic"}
    /\ pc = "searched"
    /\ ~searchResults.threw
    /\ ~NoResults(searchResults.value)
    /\ \E o \in AnswerOutcomes :
        LET a == IF script = "parallel" THEN GenerateAnswer(o) ELSE GenerateAnswerBasic(o)
            shown == IF a.threw THEN Throw ELSE ShowContexts(searchResults.value)
        IN /\ answerOutcome' = o
           /\ answer' = a
           /\ pc' = AskCatch(shown)
           /\ said' = IF a.threw THEN ErrorProcessing
                      ELSE IF shown.threw THEN a.value \o ErrorProcessing
                      ELSE a.value
    /\ UNCHANGED <<rl, input, reads, exitCode, failed, envVars, indexVars, script, collection,
                   originalQuery, k, genOutcome, queryVariations, status,
                   indexHits, allResults, path, searchResults>>

\* askQuestion of the router script: await recommendAIModel(query, modelDatabase);
\* no try block surrounds the call
AskRecommend ==
    /\ script = "router"
    /\ pc = "start"
    /\ \E o \in AnswerOutcomes :
        LET a == RecommendAIModel(o) IN
        /\ answerOutcome' = o
        /\ answer' = a
        /\ pc' = IF a.threw THEN "crashed" ELSE "done"
        /\ said' = a.value
    /\ UNCHANGED <<rl, input, reads, exitCode, failed, envVars, indexVars, script, collection,
                   originalQuery, k, genOutcome, queryVariations, status,
                   indexHits, allResults, path, searchResults>>

-----------------------------------------------------------------------------
(* Startup: the module top level, main, addDocumentsToVectorStore *)

MainError == <<"Error in main function:">>
InfoError == <<"Error checking collection info:">>
RouterKeyError == <<"Error: GOOGLE_API_KEY is not set in your environment variables.">>
RouterDataError == <<"Error loading AI model data:">>

\* the top level of a retrieval script: await loader.load() of node.pdf, the split,
\* the clients (the key is handed over unchecked), then main(); a rejected top-level
\* await ends the process with code 1
LoadDocument ==
    /\ script \in {"parallel", "basic"}
    /\ pc = "load"
    /\ IF dataset
       THEN /\ pc' = "getCollections"
            /\ UNCHANGED <<exitCode, failed>>
       ELSE /\ pc' = "exited"
            /\ exitCode' = <<1>>
            /\ failed' = "dataset"
    /\ UNCHANGED <<rl, input, reads, said, envVars, indexVars, script, collection, k, requestVars>>

\* the top level of the router script: if (!process.env.GOOGLE_API_KEY) process.exit(1),
\* then main() awaits loadAIModelData
RouterKeyCheck ==
    /\ script = "router"
    /\ pc = "load"
    /\ IF apiKey
       THEN /\ pc' = "loadAIModelData"
            /\ UNCHANGED <<said, exitCode, failed>>
       ELSE /\ pc' = "exited"
            /\ said' = RouterKeyError
            /\ exitCode' = <<1>>
            /\ failed' = "credential"
    /\ UNCHANGED <<rl, input, reads, envVars, indexVars, script, collection, k, requestVars>>

\* loadAIModelData: the file is read and parsed, or the catch block exits with code 1;
\* main then creates the interface and calls askQuestion
LoadAIModelData ==
    /\ script = "router"
    /\ pc = "loadAIModelData"
    /\ IF dataset
       THEN /\ pc' = "prompt"
            /\ UNCHANGED <<said, exitCode, failed>>
       ELSE /\ pc' = "exited"
            /\ said' = RouterDataError
            /\ exitCode' = <<1>>
            /\ failed' = "dataset"
    /\ UNCHANGED <<rl, input, reads, envVars, indexVars, script, collection, k, requestVars>>

\* the catch block of main: console.error, process.exit(1)
MainCatch(cause) ==
    /\ pc' = "exited"
    /\ said' = MainError
    /\ exitCode' = <<1>>
    /\ failed' = cause

\* the inner catch block of main, around getCollectionInfo and the indexing of an
\* empty collection: console.error, console.log; main goes on to askQuestion()
InnerCatch(cause) ==
    /\ pc' = "prompt"
    /\ said' = InfoError
    /\ failed' = cause
    /\ UNCHANGED exitCode

\* the catch blocks of createCollectionIfNotExists and addDocumentsToVectorStore:
\* log and throw the error again
AddDocumentsCatch(r) == r

\* a call awaited inside addDocumentsToVectorStore rejects: the error passes the
\* catch blocks of the function and reaches the innermost try block of main around
\* the call: the inner one when the collection existed and was empty, the outer one
\* when the collection was missing
IndexingThrows(cause) ==
    IF ~AddDocumentsCatch(Throw).threw
    THEN /\ pc' = "prompt"
         /\ failed' = cause
         /\ UNCHANGED <<said, exitCode>>
    ELSE IF innerTry THEN InnerCatch(cause)
    ELSE MainCatch(cause)

\* documents.slice(i, Math.min(i + batchSize, documents.length)): the end of the batch
BatchEndAll(start, n) == n
BatchEnd(start, n) == Min(start + BatchSize, n)

\* the for loop of addDocumentsToVectorStore at i = start: the embedding calls of the
\* batch are issued together; past the last chunk the function returns and main
\* calls askQuestion
EnterBatch(start) ==
    /\ batchStart' = start
    /\ IF start < documents
       THEN /\ pc' = "embedding"
            /\ inFlight' = BatchEnd(start, documents) - start
       ELSE /\ pc' = "prompt"
            /\ inFlight' = 0

\* main: qdrantClient.getCollections() resolves; a missing collection starts
\* addDocumentsToVectorStore (its createCollectionIfNotExists lists the collections
\* again), an existing one is asked for its point count
MainGetCollectionsReturns ==
    /\ script \in {"parallel", "basic"}
    /\ pc = "getCollections"
    /\ pc' = IF exists THEN "getCollectionInfo" ELSE "createCheck"
    /\ innerTry' = exists
    /\ UNCHANGED <<ioVars, envVars, exists, points, documents, batchStart, inFlight, upserts,
                   script, collection, k, requestVars>>

MainGetCollectionsFails ==
    /\ script \in {"parallel", "basic"}
    /\ pc = "getCollections"
    /\ MainCatch("getCollections")
    /\ UNCHANGED <<rl, input, reads, envVars, indexVars, script, collection, k, requestVars>>

\* main: getCollectionInfo resolves; pointCount === 0 starts addDocumentsToVectorStore,
\* any other count is taken as an indexed collection and askQuestion is called
GetCollectionInfoReturns ==
    /\ script \in {"parallel", "basic"}
    /\ pc = "getCollectionInfo"
    /\ pc' = IF Len(points) = 0 THEN "createCheck" ELSE "prompt"
    /\ UNCHANGED <<ioVars, envVars, indexVars, script, collection, k, requestVars>>

\* main: getCollectionInfo rejects; the inner catch block logs and askQuestion is called
GetCollectionInfoFails ==
    /\ script \in {"parallel", "basic"}
    /\ pc = "getCollectionInfo"
    /\ InnerCatch("getCollectionInfo")
    /\ UNCHANGED <<rl, input, reads, envVars, indexVars, script, collection, k, requestVars>>

\* createCollectionIfNotExists: getCollections resolves; the collection is created
\* when missing, otherwise the first batch starts
CreateCheckReturns ==
    /\ script \in {"parallel", "basic"}
    /\ pc = "createCheck"
    /\ IF exists
       THEN EnterBatch(0)
       ELSE pc' = "createCollection" /\ UNCHANGED <<batchStart, inFlight>>
    /\ UNCHANGED <<ioVars, envVars, exists, points, documents, upserts, innerTry, script,
                   collection, k, requestVars>>

CreateCheckFails ==
    /\ script \in {"parallel", "basic"}
    /\ pc = "createCheck"
    /\ IndexingThrows("createCollectionIfNotExists")
    /\ UNCHANGED <<rl, input, reads, envVars, indexVars, script, collection, k, requestVars>>

\* createCollectionIfNotExists: createCollection resolves, the first batch starts
CreateCollectionReturns ==
    /\ script \in {"parallel", "basic"}
    /\ pc = "createCollection"
    /\ exists' = TRUE
    /\ EnterBatch(0)
    /\ UNCHANGED <<ioVars, envVars, points, documents, upserts, innerTry, script, collection,
                   k, requestVars>>

CreateCollectionFails ==
    /\ script \in {"parallel", "basic"}
    /\ pc = "createCollection"
    /\ IndexingThrows("createCollectionIfNotExists")
    /\ UNCHANGED <<rl, input, reads, envVars, indexVars, script, collection, k, requestVars>>

\* getEmbeddings of one chunk of the batch resolves; with the last one Promise.all
\* fulfils and the upsert of the batch is issued. Once Promise.all has rejected and
\* the inner catch of main has gone on to the prompt, the calls still in flight
\* settle with no effect
EmbeddingOfBatchReturns ==
    /\ script \in {"parallel", "basic"}
    /\ inFlight > 0
    /\ exitCode = <<>>
    /\ inFlight' = inFlight - 1
    /\ pc' = IF pc = "embedding" /\ inFlight = 1 THEN "upsert" ELSE pc
    /\ UNCHANGED <<ioVars, envVars, exists, points, documents, batchStart, upserts, innerTry,
                   script, collection, k, requestVars>>

\* getEmbeddings of one chunk of the batch rejects: Promise.all rejects at once; a
\* later rejection of the same batch finds Promise.all already rejected
EmbeddingOfBatchFails ==
    /\ script \in {"parallel", "basic"}
    /\ inFlight > 0
    /\ exitCode = <<>>
    /\ inFlight' = inFlight - 1
    /\ IF pc = "embedding"
       THEN IndexingThrows("getEmbeddings")
       ELSE UNCHANGED <<pc, said, exitCode, failed>>
    /\ UNCHANGED <<rl, input, reads, envVars, exists, points, documents, batchStart, upserts,
                   innerTry, script, collection, k, requestVars>>

\* qdrantClient.upsert of the batch resolves: its points, each under a new uuid, are
\* in the collection; the loop goes on with i += batchSize
UpsertReturns ==
    /\ script \in {"parallel", "basic"}
    /\ pc = "upsert"
    /\ points' = points \o [j \in 1..(BatchEnd(batchStart, documents) - batchStart) |->
                                batchStart + j]
    /\ upserts' = upserts + 1
    /\ EnterBatch(batchStart + BatchSize)
    /\ UNCHANGED <<ioVars, envVars, exists, documents, innerTry, script, collection, k,
                   requestVars>>

UpsertFails ==
    /\ script \in {"parallel", "basic"}
    /\ pc = "upsert"
    /\ IndexingThrows("upsert")
    /\ UNCHANGED <<rl, input, reads, envVars, indexVars, script, collection, k, requestVars>>

\* the script is started again, after an exit or from the prompt of the last run,
\* against the same vector index and environment
RunAgain ==
    /\ pc \in {"exited", "prompt"}
    /\ runs < MaxRuns
    /\ runs' = runs + 1
    /\ pc' = "load"
    /\ said' = <<>>
    /\ exitCode' = <<>>
    /\ failed' = "none"
    /\ batchStart' = 0
    /\ inFlight' = 0
    /\ upserts' = 0
    /\ innerTry' = FALSE
    /\ UNCHANGED <<rl, input, reads, apiKey, dataset, exists, points, documents, script,
                   collection, k, requestVars>>

-----------------------------------------------------------------------------
(* Specifications *)

Next ==
    \/ ExpandStep
    \/ \E i \in DOMAIN status : EmbeddingReturns(i)
    \/ \E i \in DOMAIN status : EmbeddingFails(i)
    \/ \E i \in DOMAIN status : SearchReturns(i)
    \/ \E i \in DOMAIN status : SearchFails(i)
    \/ MergeStep
    \/ FallbackEmbeddingReturns
    \/ FallbackEmbeddingFails
    \/ FallbackSearchReturns
    \/ FallbackSearchFails
    \/ SimilarityEmbeddingReturns
    \/ SimilarityEmbeddingFails
    \/ SimilaritySearchReturns
    \/ SimilaritySearchFails
    \/ AskSearchThrew
    \/ AskNoResults
    \/ AskGenerateAnswer
    \/ AskRecommend

\* one request of any of the three scripts
Spec == Init /\ [][Next]_vars

NextMerge ==
    \/ \E i \in DOMAIN status : SearchReturns(i)
    \/ \E i \in DOMAIN status : SearchFails(i)
    \/ MergeStep
    \/ FallbackEmbeddingReturns
    \/ FallbackEmbeddingFails
    \/ FallbackSearchReturns
    \/ FallbackSearchFails

\* parallelQuerySearch from the fan-out on, over the full collection
SpecMerge == InitMerge /\ [][NextMerge]_vars

NextExpand == ExpandEnumerated

NextStartup ==
    \/ LoadDocument
    \/ RouterKeyCheck
    \/ LoadAIModelData
    \/ MainGetCollectionsReturns
    \/ MainGetCollectionsFails
    \/ GetCollectionInfoReturns
    \/ GetCollectionInfoFails
    \/ CreateCheckReturns
    \/ CreateCheckFails
    \/ CreateCollectionReturns
    \/ CreateCollectionFails
    \/ EmbeddingOfBatchReturns
    \/ EmbeddingOfBatchFails
    \/ UpsertReturns
    \/ UpsertFails
    \/ RunAgain

\* runs of a script from its start to the first prompt or to its exit
SpecStartup == InitStartup /\ [][NextStartup]_vars

\* the steps that process the query read at the prompt
QueryStep ==
    \/ ExpandInSession
    \/ \E i \in DOMAIN status : EmbeddingReturns(i)
    \/ \E i \in DOMAIN status : EmbeddingFails(i)
    \/ \E i \in DOMAIN status : SearchReturns(i)
    \/ \E i \in DOMAIN status : SearchFails(i)
    \/ MergeStep
    \/ FallbackEmbeddingReturns
    \/ FallbackEmbeddingFails
    \/ FallbackSearchReturns
    \/ FallbackSearchFails
    \/ SimilarityEmbeddingReturns
    \/ SimilarityEmbeddingFails
    \/ SimilaritySearchReturns
    \/ SimilaritySearchFails
    \/ AskSearchThrew
    \/ AskNoResults
    \/ AskGenerateAnswer
    \/ AskRecommend

NextLoop ==
    \/ ReadLine
    \/ QueryStep

\* the interactive session of any of the three scripts
SpecLoop == InitLoop /\ [][NextLoop]_vars

\* the interactive session when every awaited call of a request settles and its
\* continuation runs; the user is free never to type a line
SpecLoopFair == InitLoop /\ [][NextLoop]_vars /\ WF_vars(QueryStep)

\* generateQueryVariations on every enumerated response of the paraphrase service
SpecExpand == InitExpand /\ [][NextExpand]_vars

-----------------------------------------------------------------------------
(* Properties of generateQueryVariations *)

Expanded == script = "parallel" /\ pc # "start" /\ genOutcome.kind # "none"

\* C1: for every outcome of the paraphrase service call (a parseable response, an
\* unparseable response, a failed call), generateQueryVariations does not throw and
\* returns a sequence of length at least 1 whose first element is the original query.
C1_OriginalQueryFirst ==
    Expanded =>
        /\ ~queryVariations.threw
        /\ Len(queryVariations.value) >= 1
        /\ queryVariations.value[1] = originalQuery

\* a fenced array of three strings was parsed: the original query and the three follow
C1_Witness ==
    /\ Expanded
    /\ genOutcome = [kind |-> "text", text |-> FencedThree]
    /\ queryVariations = Ret(<<originalQuery, VariationT, VariationU, VariationC>>)

\* the response, stripped of code fences, is the expected JSON array of exactly three strings
ExpectedArray(text) ==
    LET parsed == JSONParse(Trim(StripFences(text))) IN
    /\ ~parsed.threw
    /\ parsed.value.t = "array"
    /\ Len(parsed.value.items) = 3
    /\ \A i \in 1..3 : parsed.value.items[i].t = "string"

\* C2: when the service call succeeds with content that is not the expected JSON
\* array, generateQueryVariations returns exactly the original query followed by
\* the three templated variations.
C2_MalformedYieldsTemplates ==
    (Expanded /\ genOutcome.kind = "text" /\ ~ExpectedArray(genOutcome.text)) =>
        queryVariations = Ret(TemplatedVariations(originalQuery))

\* C3: when the paraphrase service call fails, generateQueryVariations returns the
\* original query alone and the fan-out starts exactly one singleQuerySearch.
C3_CallFailureYieldsOriginalOnly ==
    (Expanded /\ genOutcome.kind # "text") =>
        /\ queryVariations = Ret(<<originalQuery>>)
        /\ path # "fallback" => Len(status) = 1

\* the call was rejected, the one search returned a chunk and the merge returned it
C3_Witness ==
    /\ Expanded
    /\ genOutcome.kind = "rejects"
    /\ pc = "searched"
    /\ path = "merge"
    /\ status = <<"returned">>
    /\ Len(searchResults.value) = 1
    /\ searchResults.value[1].query = originalQuery

\* C15: for every response of the paraphrase service, generateQueryVariations
\* returns at most four variations (the original query and three paraphrases), so
\* the fan-out starts at most four searches.
C15_AtMostFourVariations ==
    Expanded =>
        /\ Len(queryVariations.value) <= 1 + 3
        /\ Len(status) <= 1 + 3

-----------------------------------------------------------------------------
(* Properties of the value parallelQuerySearch returns *)

Returned == script = "parallel" /\ pc = "searched"

\* the hits handed to the merge, in flattened fan-out order
FlatResults == Flat([i \in DOMAIN allResults |-> allResults[i].value])

\* the first 100 characters of a hit's content text
IdentityKey(hit) == SubSeq(hit.pageContent.v, 1, Min(IdentityPrefixLen, Len(hit.pageContent.v)))

HasText(hit) == hit.pageContent.t = "string"

\* C4: the sequence parallelQuerySearch returns, on the merge path and on the
\* fall-back path, has at most k entries.
C4_AtMostK ==
    Returned => (~searchResults.threw /\ Len(searchResults.value) <= k)

\* the merge kept two distinct chunks and only the first fits in k = 1
C4_Witness ==
    /\ Returned
    /\ path = "merge"
    /\ k = 1
    /\ Len(searchResults.value) = 1
    /\ \E i, j \in 1..Len(FlatResults) : IdentityKey(FlatResults[i]) # IdentityKey(FlatResults[j])

\* C5: the sequence parallelQuerySearch returns is sorted by score, descending.
C5_SortedByScore ==
    Returned =>
        \A i \in 1..(Len(searchResults.value) - 1) :
            searchResults.value[i].score >= searchResults.value[i + 1].score

\* the hits arrived in ascending order of score and are returned in descending order
C5_Witness ==
    /\ Returned
    /\ path = "merge"
    /\ Len(FlatResults) = 2
    /\ FlatResults[1].score < FlatResults[2].score
    /\ searchResults.value = <<FlatResults[2], FlatResults[1]>>

\* C6 as stated: on every return path, the fall-back included, no two entries of
\* the returned sequence share an identity key.
C6_NoSharedKeyAnyPath ==
    Returned =>
        \A i, j \in 1..Len(searchResults.value) :
            (i # j /\ HasText(searchResults.value[i]) /\ HasText(searchResults.value[j]))
                => IdentityKey(searchResults.value[i]) # IdentityKey(searchResults.value[j])

\* C6 amended: on the merge path, every entry of the returned sequence has a content
\* text and no two entries share an identity key.
C6_NoSharedKeyOnMergePath ==
    (Returned /\ path = "merge") =>
        /\ \A i \in 1..Len(searchResults.value) : HasText(searchResults.value[i])
        /\ \A i, j \in 1..Len(searchResults.value) :
            i # j => IdentityKey(searchResults.value[i]) # IdentityKey(searchResults.value[j])

\* two distinct chunks with the same first 100 characters were found; one is returned
C6_Witness ==
    /\ Returned
    /\ path = "merge"
    /\ \E i, j \in 1..Len(FlatResults) :
        /\ FlatResults[i].pageContent = ContentA1
        /\ FlatResults[j].pageContent = ContentA2
    /\ Len(searchResults.value) = 1

\* the first hit, in flattened order, that attains the highest score among the hits
\* with the given identity key
FirstBest(flat, key) ==
    LET same == { i \in 1..Len(flat) : IdentityKey(flat[i]) = key }
        best == { i \in same : \A j \in same : flat[j].score <= flat[i].score }
    IN flat[CHOOSE i \in best : \A j \in best : i <= j]

KeysOf(flat) == { IdentityKey(flat[i]) : i \in 1..Len(flat) }

\* C7: every entry the merge returns is, for its identity key, the first hit in
\* flattened order that attains the key's highest score, and every key is returned
\* when k does not truncate.
C7_FirstHighestKept ==
    (Returned /\ path = "merge") =>
        /\ \A i \in 1..Len(searchResults.value) :
            searchResults.value[i] = FirstBest(FlatResults, IdentityKey(searchResults.value[i]))
        /\ Cardinality(KeysOf(FlatResults)) <= k =>
            KeysOf(searchResults.value) = KeysOf(FlatResults)

\* one key met three times: its 0.90 hit is replaced by the 0.95 hit of the second
\* variation, which is kept over the later hit of equal score
C7_Witness ==
    /\ Returned
    /\ path = "merge"
    /\ Len(FlatResults) = 3
    /\ FlatResults[1].pageContent = ContentA1 /\ FlatResults[1].score = 90
    /\ FlatResults[2].pageContent = ContentA1 /\ FlatResults[2].score = 95
    /\ FlatResults[3].pageContent = ContentA2 /\ FlatResults[3].score = 95
    /\ searchResults.value = <<FlatResults[2]>>

-----------------------------------------------------------------------------
(* Properties of the fan-out *)

\* the step in which await Promise.all(searchPromises) ends
Joins == script = "parallel" /\ pc = "fanout" /\ pc' # "fanout"

\* what each variation contributes: its tagged hits when its search returned,
\* nothing when its embedding or its search failed
Contributions ==
    [i \in DOMAIN status |->
        IF status[i] = "returned"
        THEN TagHits(indexHits[i], queryVariations.value[i])
        ELSE <<>>]

\* C8: a failed embedding or search of one variation does not end the fan-out: the
\* join waits for every variation, the failed ones contribute no hit, and the value
\* returned is the merge of the tagged hits of the variations that succeeded (the
\* catch block is entered only when that merge itself throws).
C8_FailedVariationContributesNothing ==
    [][Joins =>
        /\ \A i \in DOMAIN status : Settled(status[i])
        /\ LET expected == MergeResults(Contributions, k) IN
           IF expected.threw
           THEN pc' = "fallbackEmbedding"
           ELSE /\ pc' = "searched"
                /\ path' = "merge"
                /\ searchResults' = expected
                /\ \A n \in 1..Len(expected.value) :
                    \E i \in DOMAIN status :
                        /\ status[i] = "returned"
                        /\ expected.value[n].query = queryVariations.value[i]]_vars

\* the first variation failed and the hit of the second is returned with its tag
C8_Witness ==
    /\ Returned
    /\ path = "merge"
    /\ status = <<"failed", "returned">>
    /\ Len(indexHits[2]) = 1
    /\ searchResults.value = TagHits(indexHits[2], queryVariations.value[2])
    /\ queryVariations.value[2] = VariationT

\* C9: the merge starts only once every variation's search has settled, and nothing
\* is added to the per-variation results after it has started.
C9_MergeAfterEverySearchSettled ==
    [][/\ Joins => \A i \in DOMAIN status : Settled(status[i])
       /\ (script = "parallel" /\ pc \notin {"start", "fanout"}) =>
            (allResults' = allResults /\ status' = status)]_vars

\* four searches, settled in some order with two failures, then merged
C9_Witness ==
    /\ Returned
    /\ path = "merge"
    /\ status = <<"returned", "failed", "returned", "failed">>
    /\ Len(indexHits[1]) = 1
    /\ Len(indexHits[3]) = 1
    /\ Len(searchResults.value) >= 1

\* the fan-out has ended and no variation's search brought a hit
ZeroHits ==
    /\ script = "parallel"
    /\ pc \in {"searched", "done"}
    /\ Len(status) >= 1
    /\ \A i \in DOMAIN status : Settled(status[i])
    /\ Flat(indexHits) = <<>>

\* C17: when no variation's search brought a hit, failed searches included,
\* parallelQuerySearch returns the empty sequence without throwing, and askQuestion
\* ends the request with "No relevant information found." instead of an error,
\* without calling generateAnswer.
C17_ZeroHitsYieldNoInformation ==
    ZeroHits =>
        /\ path = "merge"
        /\ searchResults = Ret(<<>>)
        /\ pc = "done" => (said = NoInformation /\ ~answer.called)

\* the searches of all four variations failed and the request ended with the message
C17_Witness ==
    /\ ZeroHits
    /\ pc = "done"
    /\ status = <<"failed", "failed", "failed", "failed">>
    /\ said = NoInformation

\* C18: whatever the order in which the searches of the variations settled, the
\* sequence returned on the merge path is the merge of the per-variation hit lists
\* taken in variation order, each hit tagged with the variation that found it.
C18_IndependentOfCompletionOrder ==
    (Returned /\ path = "merge") =>
        searchResults =
            MergeResults([i \in DOMAIN status |->
                            TagHits(indexHits[i], queryVariations.value[i])], k)

\* two variations found the same chunk with the same score: the hit returned carries
\* the tag of the earlier variation, in whichever order the two searches settled
C18_Witness ==
    /\ Returned
    /\ path = "merge"
    /\ \E i, j \in DOMAIN status :
        /\ i < j
        /\ Len(indexHits[i]) = 1
        /\ indexHits[j] = indexHits[i]
        /\ searchResults.value = TagHits(indexHits[i], queryVariations.value[i])

-----------------------------------------------------------------------------
(* Properties of answer generation *)

\* C10: generateAnswer (both scripts) and recommendAIModel never throw; when the
\* generative service call fails they return their fixed apology string.
C10_ApologyOnServiceFailure ==
    answer.called =>
        /\ ~answer.threw
        /\ answerOutcome.kind # "text" =>
            answer.value = IF script = "router" THEN RouterApology ELSE Apology

\* the service call of the parallel script's generateAnswer was rejected
C10_Witness ==
    /\ script = "parallel"
    /\ pc = "done"
    /\ answerOutcome.kind = "rejects"
    /\ answer = Ret(Apology)

-----------------------------------------------------------------------------
(* Properties of the interactive session *)

RagScript == script \in {"parallel", "basic"}

\* a query has been read and its processing has not come back to the prompt
Processing == rl = "open" /\ pc \notin {"prompt", "done", "exited"}

\* rl.question is pending on the open interface
Prompting == rl = "open" /\ pc \in {"prompt", "done"}

\* C11 as stated: in the retrieval scripts, after every line other than "exit" the
\* prompt is eventually issued again, whether the processing of the query succeeded
\* or failed, and the interface is closed by no line other than "exit".
C11_EveryLineButExitReturnsToPrompt ==
    /\ [](RagScript /\ reads > 0 /\ input # ExitLine /\ ~Prompting => <>Prompting)
    /\ [](RagScript /\ rl = "closed" => input = ExitLine)

\* C11 amended: in the retrieval scripts, after every line that does not read "exit"
\* once lower-cased the prompt is eventually issued again, whether the processing of
\* the query succeeded or failed, and the interface is closed only by a line that
\* reads "exit" once lower-cased.
C11_FailureContainedToIteration ==
    /\ [](RagScript /\ Processing => <>Prompting)
    /\ [](RagScript /\ rl = "closed" => ToLowerCase(input.v) = ExitLine.v)

\* the search of the single query script threw, the error was reported and the
\* prompt is issued again
C11_Witness ==
    /\ script = "basic"
    /\ searchResults.threw
    /\ said = ErrorProcessing
    /\ Prompting
    /\ reads >= 1

\* the step in which the callback of rl.question takes a line
TakesLine == reads' = reads + 1

\* C12 as stated: the line "exit" closes the interface, after which no step is taken,
\* and every other line starts the processing of a query.
C12_OnlyExitTerminates ==
    [][/\ rl = "closed" => UNCHANGED vars
       /\ TakesLine =>
            IF input' = ExitLine
            THEN rl' = "closed" /\ pc' = "exited"
            ELSE rl' = "open" /\ pc' = "start" /\ originalQuery' = input']_vars

\* C12 amended: a line that reads "exit" once lower-cased ("exit", "Exit", "EXIT")
\* closes the interface, after which no prompt is issued and no call is made; every
\* other line starts the processing of a query with that line as the query.
C12_ExitIgnoringCaseTerminates ==
    [][/\ rl = "closed" => UNCHANGED vars
       /\ TakesLine =>
            IF ToLowerCase(input'.v) = ExitLine.v
            THEN rl' = "closed" /\ pc' = "exited"
            ELSE rl' = "open" /\ pc' = "start" /\ originalQuery' = input']_vars

\* after a first query, the line "Exit" closed the interface
C12_Witness ==
    /\ rl = "closed"
    /\ pc = "exited"
    /\ input = Str(<<"E", "x", "i", "t">>)
    /\ reads = 2

\* C13: the line "index" typed at the prompt of a retrieval script starts
\* addDocumentsToVectorStore (the collection check, then the embed-and-upsert
\* batches) and is not taken as the query of a request.
C13_IndexLineReindexes ==
    [][(RagScript /\ TakesLine /\ input' = IndexLine) =>
            /\ pc' = "createCheck"
            /\ originalQuery' # IndexLine]_vars

-----------------------------------------------------------------------------
(* Properties of startup and indexing *)

\* C14: after a failure of startup indexing (the collection check or creation of
\* createCollectionIfNotExists, a chunk's embedding, a batch upsert) the run has
\* ended with exit code 1, and a run whose file is missing, or, in the router
\* script, whose key is missing, does not reach the prompt.
C14_StartupFailureFatal ==
    /\ failed \in {"createCollectionIfNotExists", "getEmbeddings", "upsert"} =>
        (pc = "exited" /\ exitCode = <<1>>)
    /\ (~dataset \/ (script = "router" /\ ~apiKey)) =>
        (pc \in {"load", "loadAIModelData", "exited"} /\ (pc = "exited" => exitCode = <<1>>))

\* C16: while the embedding calls or the upsert of the batch starting at chunk
\* batchStart + 1 are pending, at most 20 embedding calls are in flight and every
\* earlier batch has been upserted, each chunk once; when indexing has run to its end
\* with no call failing, the collection holds chunks 1..documents once each, written
\* by ceil(documents / 20) upsert calls.
C16_SequentialBatches ==
    /\ inFlight <= BatchSize
    /\ (RagScript /\ pc \in {"embedding", "upsert"}) =>
        /\ batchStart % BatchSize = 0
        /\ batchStart < documents
        /\ inFlight <= BatchSize
        /\ inFlight <= documents - batchStart
        /\ pc = "upsert" => inFlight = 0
        /\ points = [j \in 1..batchStart |-> j]
        /\ upserts = batchStart \div BatchSize
    /\ (RagScript /\ pc = "prompt" /\ upserts > 0 /\ failed = "none") =>
        /\ points = [j \in 1..documents |-> j]
        /\ upserts = (documents + BatchSize - 1) \div BatchSize

\* 41 chunks were indexed in three upsert calls
C16_Witness ==
    /\ RagScript
    /\ pc = "prompt"
    /\ failed = "none"
    /\ documents = 2 * BatchSize + 1
    /\ upserts = 3
    /\ points = [j \in 1..documents |-> j]

\* C19: whenever a run of a retrieval script is at the prompt, every chunk of the
\* document is in the collection.
C19_PromptImpliesEveryChunkIndexed ==
    (RagScript /\ pc = "prompt") =>
        \A c \in 1..documents : \E j \in 1..Len(points) : points[j] = c

====
